---- MODULE Spec2Model ----
(***************************************************************************)
(* Model of rr.py (Referee Report Generator): one invocation of main().    *)
(* The state is main's local variables plus the effects it has on its      *)
(* collaborators: the Coop registry (push), the model backends (run), the   *)
(* clipboard, the working directory and the temporary directory.  Each      *)
(* action is one stretch of main() between two calls that can raise.        *)
(***************************************************************************)
EXTENDS Integers, Sequences, FiniteSets, TLC

(* ---------------------------- bounds ----------------------------------- *)
\* --pages is any int; the model draws it from -MaxPages..MaxPages or omits it
MaxPages == 1
\* directories the pdf_file argument may lie in: 0..NumDirs
NumDirs == 1

(* ------------------------ values of the program ------------------------ *)
\* Python's None where a string is expected (err, output, temp_filename)
None == "None"
\* an Optional that holds a structured value is a sequence: <<>> is None
Nothing == <<>>
Some(x) == <<x>>
\* Result Cells: not produced yet, produced without an answer, or an answer
Pending == <<>>
NoAnswer == <<"None">>
\* the text the backend m returns for question q: an opaque value of its own
Answer(m, q) == <<"answer", m, q>>
\* rr.py:192, the placeholder url
Unknown == <<"unknown">>

\* rr.py:123-133, in declaration order
models == <<"claude-opus-4-20250514", "gemini-2.0-flash-exp", "o1-preview">>

\* rr.py:149, Survey([review_question, q_response_to_review])
survey == <<"full_review", "response_to_review">>

\* rr.py:136-147: what each question_text reads besides scenario.paper:
\* q_response_to_review holds {{ full_review.answer }}
Refs(q) == IF q = "response_to_review" THEN {"full_review"} ELSE {}

ModelSet == {models[i] : i \in 1..Len(models)}
QuestionSet == {survey[i] : i \in 1..Len(survey)}
Stems == {"paper"}
Dirs == 0..NumDirs
PagesArgs == {Nothing} \cup {Some(n) : n \in (0 - MaxPages)..MaxPages}
OutputArgs == {Nothing, Some(<<"custom_", "out", ".docx">>)}

VARIABLES
    pdf_file,     \* argument: <<directory, stem, suffix>>
    output,       \* --output
    pages,        \* --pages
    clipboard,    \* --clipboard
    to_coop,      \* --to_coop
    pc,           \* position in main()
    err,          \* the exception that ended main(), or None
    paper,        \* the Scenario: Nothing, or Some(FileStore kwargs)
    coop_info,    \* Nothing, or Some(record paper.push returned)
    results,      \* results[m][q]: Pending, NoAnswer (failed cell) or an answer
    calls,        \* Model Runner calls made: [model, question, read, substituted]
    completion,   \* models in the order their question chains finished
    clip,         \* clipboard content
    files,        \* working directory: name -> content, for the files in it
    temps,        \* temporary directory: name -> content, for the files made by this run
    temp_filename,\* main's temp_filename, Nothing before line 180
    pushed,       \* Coop: sequence of [kind, description, object, ncalls]
    rendered      \* number of report_from_template calls

vars == <<pdf_file, output, pages, clipboard, to_coop, pc, err, paper,
          coop_info, results, calls, completion, clip, files, temps,
          temp_filename, pushed, rendered>>

args == <<pdf_file, output, pages, clipboard, to_coop>>

(* ------------------------ pure helpers --------------------------------- *)
\* pathlib: pdf_file.name and pdf_file.stem drop the directory
Name(p) == <<p[2], p[3]>>
Stem(p) == p[2]

\* rr.py:211
OutputFilename(p) == <<"referee_report_", Stem(p), ".docx">>

\* rr.py:107
PaperDescription(p) == <<"Paper being reviewed: ", Name(p)>>

\* (variant) the description never gets the url
PaperUrlPlaceholder(ci) == Unknown

\* rr.py:192
PaperUrl(ci) == IF ci # Nothing THEN ci[1].url ELSE Unknown

\* rr.py:194
ReviewDescription(p, url) == <<"Review of paper: ", Name(p), ". Paper at ", url>>

\* the url Coop hands out for the k-th object pushed in this run
CoopUrl(k) == <<"https://www.expectedparrot.com/content/", k>>

\* rr.py:97-99: 'pages' is passed on only when it is truthy
FileStoreKwargs(p, pg) ==
    IF pg # Nothing /\ pg[1] # 0 THEN [path |-> p, pages |-> pg]
                                 ELSE [path |-> p, pages |-> Nothing]

\* rr.py:158-166 applied to one Result: the section of one model
Section(res, m) == <<m, res[m]["full_review"], res[m]["response_to_review"]>>

\* (variant) the Results come in the order the chains finished
ResultsInCompletionOrder(done) == done

\* rr.py:153: the order of the Results that run() returns is the order of
\* the list given to .by(models), whatever order the chains finished in
ResultsOrder(done) == models

\* rr.py:170/183/212: results.report_from_template, one section per Result
ReportFromTemplate(res, done, format) ==
    [format |-> format,
     sections |-> [i \in 1..Len(ResultsOrder(done)) |->
                      Section(res, ResultsOrder(done)[i])]]

\* the first question of the survey that model m has not been through yet
RECURSIVE NextIndexFrom(_, _, _)
NextIndexFrom(res, m, i) ==
    IF i > Len(survey) THEN 0
    ELSE IF res[m][survey[i]] = Pending THEN i
    ELSE NextIndexFrom(res, m, i + 1)
NextQuestion(res, m) == NextIndexFrom(res, m, 1)

\* (variant) every model reads the answers of the first model
AnswerSourceFirstModel(m, ref) == models[1]

\* the model whose Result Cell is read for the reference `ref` made by model m
AnswerSource(m, ref) == m

\* what a report file left by an earlier invocation holds
OldReport == [format |-> "docx", sections |-> <<>>]
\* what NamedTemporaryFile leaves on disk before anything is saved to it
EmptyFile == [format |-> "empty", sections |-> <<>>]

NoCells == [m \in ModelSet |-> [q \in QuestionSet |-> Pending]]
AllDone(res) == \A m \in ModelSet : \A q \in QuestionSet : res[m][q] # Pending

(* ------------------------------ Init ----------------------------------- *)
Init ==
    /\ pdf_file \in {<<d, s, ".pdf">> : d \in Dirs, s \in Stems}
    /\ output \in OutputArgs
    /\ pages \in PagesArgs
    /\ clipboard \in BOOLEAN
    /\ to_coop \in BOOLEAN
    /\ pc = "bind"
    /\ err = None
    /\ paper = Nothing
    /\ coop_info = Nothing
    /\ results = NoCells
    /\ calls = {}
    /\ completion = <<>>
    /\ clip = Nothing
    \* a report of an earlier invocation may already lie in the directory
    /\ files \in {<<>>, OutputFilename(pdf_file) :> OldReport}
    /\ temps = <<>>
    /\ temp_filename = Nothing
    /\ pushed = <<>>
    /\ rendered = 0

\* an exception nobody catches: main() ends there
Raise(e) == pc' = "aborted" /\ err' = e

(* ------------------------ rr.py:88-101 --------------------------------- *)
\* FileStore(**file_store_kwargs) and Scenario({'paper': ...}).  A negative
\* pages value reaches FileStore as it is; whether FileStore takes it or
\* raises is the library's choice.
BindScenario ==
    /\ pc = "bind"
    /\ LET kw == FileStoreKwargs(pdf_file, pages) IN
         \/ /\ paper' = Some(kw)
            /\ pc' = "push_paper"
            /\ err' = err
         \/ /\ kw.pages # Nothing /\ kw.pages[1] < 0
            /\ Raise("FileStoreError")
            /\ paper' = paper
    /\ UNCHANGED <<args, coop_info, results, calls, completion, clip, files,
                   temps, temp_filename, pushed, rendered>>

(* ------------------------ rr.py:103-120 -------------------------------- *)
PushPaper ==
    /\ pc = "push_paper"
    /\ IF to_coop
       THEN \/ /\ coop_info' = Some([url |-> CoopUrl(Len(pushed) + 1)])
               /\ pushed' = Append(pushed,
                      [kind |-> "paper",
                       description |-> PaperDescription(pdf_file),
                       object |-> paper,
                       ncalls |-> Cardinality(calls)])
               /\ pc' = "run"
               /\ err' = err
            \* paper.push raises; nothing in main() catches it
            \/ /\ Raise("PublishError")
               /\ UNCHANGED <<coop_info, pushed>>
       ELSE /\ pc' = "run"
            /\ UNCHANGED <<coop_info, pushed, err>>
    /\ UNCHANGED <<args, paper, results, calls, completion, clip, files,
                   temps, temp_filename, rendered>>
(* ------------------------ rr.py:151-153 -------------------------------- *)
\* survey.by(paper).by(models).run(): one step is one Result Cell of one
\* model.  Each model goes through the survey in order; the chains of the
\* models interleave freely.  main() passes run() no failure policy and does
\* not look into the results, so a failed backend call either raises out of
\* run() or leaves a cell without an answer.
EvalCell(m) ==
    /\ pc = "run"
    /\ NextQuestion(results, m) # 0
    /\ LET q == survey[NextQuestion(results, m)]
           subst == [ref \in Refs(q) |-> results[AnswerSource(m, ref)][ref]]
           call == [model |-> m, question |-> q, scenario |-> paper,
                    read |-> {<<AnswerSource(m, ref), ref>> : ref \in Refs(q)},
                    substituted |-> subst]
           Set(cell) ==
               /\ results' = [results EXCEPT ![m][q] = cell]
               /\ completion' = IF NextQuestion(results', m) = 0
                                 THEN Append(completion, m) ELSE completion
       IN
         \* the backend answers
         \/ /\ calls' = calls \cup {call}
            /\ Set(Answer(m, q))
            /\ UNCHANGED <<pc, err>>
         \* the backend fails and run() raises
         \/ /\ calls' = calls \cup {call}
            /\ Raise("ModelExecutionError")
            /\ UNCHANGED <<results, completion>>
         \* the backend fails and run() goes on without an answer
         \/ /\ calls' = calls \cup {call}
            /\ Set(NoAnswer)
            /\ UNCHANGED <<pc, err>>
         \* a question whose reference has no answer is not asked
         \/ /\ \E ref \in Refs(q) : subst[ref] = NoAnswer
            /\ Set(NoAnswer)
            /\ UNCHANGED <<calls, pc, err>>
    /\ UNCHANGED <<args, paper, coop_info, clip, files, temps, temp_filename,
                   pushed, rendered>>

\* run() returns once every model went through the whole survey
RunReturn ==
    /\ pc = "run"
    /\ AllDone(results)
    /\ pc' = "sink"
    /\ UNCHANGED <<args, err, paper, coop_info, results, calls, completion,
                   clip, files, temps, temp_filename, pushed, rendered>>

(* ------------------------ rr.py:168-216 -------------------------------- *)
\* (variant) --to_coop is looked at first
SinkCoopFirst(clip_flag, coop_flag) ==
    IF coop_flag THEN "coop"
    ELSE IF clip_flag THEN "clipboard"
    ELSE "local"

\* the if / else / if / else that picks the sink: --clipboard is looked at
\* first, --to_coop only when --clipboard is off
Sink(clip_flag, coop_flag) ==
    IF clip_flag THEN "clipboard"
    ELSE IF coop_flag THEN "coop"
    ELSE "local"

(* ------------------------ rr.py:168-175 -------------------------------- *)
ClipboardSink ==
    /\ pc = "sink"
    /\ Sink(clipboard, to_coop) = "clipboard"
    /\ rendered' = rendered + 1
    /\ \/ /\ clip' = Some(ReportFromTemplate(results, completion, "text"))
          /\ pc' = "done"
          /\ err' = err
       \* pyperclip.copy raises (no clipboard on this machine)
       \/ /\ Raise("PyperclipException")
          /\ clip' = clip
    /\ UNCHANGED <<args, paper, coop_info, results, calls, completion, files,
                   temps, temp_filename, pushed>>

(* ------------------------ rr.py:177-180 -------------------------------- *)
\* the name NamedTemporaryFile picks: not the name of any file there
TempName(tmp) == <<"tmp", Cardinality(DOMAIN tmp) + 1, ".docx">>

\* (variant) delete=True: the file is gone when the with block ends
NamedTemporaryFileDeleted(tmp) == tmp

\* NamedTemporaryFile(suffix='.docx', delete=False) and the end of its with
\* block: the new, empty file stays in the temporary directory
NamedTemporaryFile(tmp) == (TempName(tmp) :> EmptyFile) @@ tmp

CreateTemp ==
    /\ pc = "sink"
    /\ Sink(clipboard, to_coop) = "coop"
    /\ temp_filename' = TempName(temps)
    /\ temps' = NamedTemporaryFile(temps)
    /\ pc' = "save_temp"
    /\ UNCHANGED <<args, err, paper, coop_info, results, calls, completion,
                   clip, files, pushed, rendered>>

(* ------------------------ rr.py:182-187 -------------------------------- *)
SaveTemp ==
    /\ pc = "save_temp"
    /\ rendered' = rendered + 1
    /\ \/ /\ temps' = [temps EXCEPT ![temp_filename] =
                           ReportFromTemplate(results, completion, "docx")]
          /\ pc' = "push_review"
          /\ err' = err
       \* save raises
       \/ /\ Raise("OSError")
          /\ temps' = temps
    /\ UNCHANGED <<args, paper, coop_info, results, calls, completion, clip,
                   files, temp_filename, pushed>>

(* ------------------------ rr.py:189-208 -------------------------------- *)
PushReview ==
    /\ pc = "push_review"
    /\ \/ /\ pushed' = Append(pushed,
                 [kind |-> "review",
                  description |-> ReviewDescription(pdf_file, PaperUrl(coop_info)),
                  object |-> Some(temps[temp_filename]),
                  ncalls |-> Cardinality(calls)])
          /\ pc' = "done"
          /\ err' = err
       \* review_filestore.push raises
       \/ /\ Raise("PublishError")
          /\ pushed' = pushed
    /\ UNCHANGED <<args, paper, coop_info, results, calls, completion, clip,
                   files, temps, temp_filename, rendered>>

(* ------------------------ rr.py:209-216 -------------------------------- *)
\* (variant) --output, when given, is where the report goes
LocalPathFromOutput(p, out) == IF out # Nothing THEN out[1] ELSE OutputFilename(p)

\* the path the local report is saved to
LocalPath(p, out) == OutputFilename(p)

LocalSink ==
    /\ pc = "sink"
    /\ Sink(clipboard, to_coop) = "local"
    /\ rendered' = rendered + 1
    /\ \/ /\ files' = (LocalPath(pdf_file, output) :>
                          ReportFromTemplate(results, completion, "docx")) @@ files
          /\ pc' = "done"
          /\ err' = err
       \* save raises
       \/ /\ Raise("OSError")
          /\ files' = files
    /\ UNCHANGED <<args, paper, coop_info, results, calls, completion, clip,
                   temps, temp_filename, pushed>>

Next ==
    \/ BindScenario
    \/ PushPaper
    \/ \E m \in ModelSet : EvalCell(m)
    \/ RunReturn
    \/ ClipboardSink
    \/ CreateTemp
    \/ SaveTemp
    \/ PushReview
    \/ LocalSink

Spec == Init /\ [][Next]_vars


(* ======================= properties ==================================== *)
Pairs == ModelSet \X QuestionSet
Produced == {pr \in Pairs : results[pr[1]][pr[2]] # Pending}
FailedCell ==
    \/ err = "ModelExecutionError"
    \/ \E pr \in Pairs : results[pr[1]][pr[2]] = NoAnswer
CallsFor(m, q) == {c \in calls : c.model = m /\ c.question = q}

\* the report files of this run in the working directory
Written == {f \in DOMAIN files : files[f] # OldReport}
\* the entries of Coop of one kind
PushedOf(kind) == {i \in 1..Len(pushed) : pushed[i].kind = kind}
\* every report this run has put somewhere
Reports ==
    {clip[i] : i \in 1..Len(clip)}
    \cup {files[f] : f \in Written}
    \cup {temps[f] : f \in {g \in DOMAIN temps : temps[g] # EmptyFile}}
    \cup {pushed[i].object[1] : i \in PushedOf("review")}
InModelSetOrder(r) ==
    /\ Len(r.sections) = Len(models)
    /\ \A i \in 1..Len(models) : r.sections[i] = Section(results, models[i])

C2_NonPositivePagesRejected ==
    (pages # Nothing /\ pages[1] <= 0) =>
        (paper = Nothing /\ pushed = <<>> /\ calls = {})

\* the push of the source document raised
SourcePublishFailed == to_coop /\ coop_info = Nothing /\ err = "PublishError"

\* C3: with the remote sink chosen, a failed publish of the source document
\* does not end the run: the run is not aborted and the description of the
\* published report holds "unknown" where the url would be.
C3_SourcePublishFailureTolerated ==
    (Sink(clipboard, to_coop) = "coop" /\ SourcePublishFailed) =>
        /\ pc # "aborted"
        /\ \A i \in PushedOf("review") : pushed[i].description[4] = Unknown

\* C4: once a Model Runner call has failed, the renderer is never invoked,
\* nothing is on the clipboard, no report file or temporary file is written
\* and no report is published.
C4_AllOrNothing ==
    FailedCell =>
        /\ rendered = 0
        /\ clip = Nothing
        /\ Written = {}
        /\ DOMAIN temps = {}
        /\ PushedOf("review") = {}

\* C5: every published report comes after the publish of the source
\* document, which happened before the first Model Runner call, and the
\* report's description holds the url of that Publish Record, not the
\* placeholder.
C5_SourcePublishedFirst ==
    \A i \in PushedOf("review") :
        \E j \in PushedOf("paper") :
            /\ j < i
            /\ pushed[j].ncalls = 0
            /\ coop_info = Some([url |-> CoopUrl(j)])
            /\ pushed[i].description[4] = CoopUrl(j)
            /\ pushed[i].description[4] # Unknown

\* C5 witness: a report has been published
C5_Witness == pc = "done" /\ PushedOf("review") # {}

\* the sink actions a run has performed
SinkActions ==
    (IF clip # Nothing THEN {"clipboard"} ELSE {})
    \cup (IF PushedOf("review") # {} THEN {"coop"} ELSE {})
    \cup (IF Written # {} THEN {"local"} ELSE {})

\* C6: a run that ends well has performed exactly one of clipboard write,
\* report publish and local file write, whatever the two flags are:
\* --clipboard selects the clipboard, --to_coop without --clipboard the
\* publish, and neither flag the local file.
C6_ExactlyOneSink ==
    pc = "done" =>
        /\ Cardinality(SinkActions) = 1
        /\ clipboard => SinkActions = {"clipboard"}
        /\ (to_coop /\ ~clipboard) => SinkActions = {"coop"}
        /\ (~to_coop /\ ~clipboard) => SinkActions = {"local"}

\* C6 witness: both flags given and the run ended well
C6_Witness == pc = "done" /\ clipboard /\ to_coop /\ clip # Nothing

\* C7: in a run with --clipboard no file is written and nothing is published,
\* whatever --to_coop is; the source document is published only when the
\* sink is the remote one.
C7_ClipboardOnlyEffect ==
    /\ clipboard => (Written = {} /\ DOMAIN temps = {} /\ pushed = <<>>)
    /\ PushedOf("paper") # {} => Sink(clipboard, to_coop) = "coop"

====
